---- MODULE Spec2Model ----
(***************************************************************************)
(* Campaign KPI Analyzer (campaign_kpi_app.py): phone normalisation,       *)
(* compute_kpis (item filter, date window, reach/buyers match, scalar      *)
(* KPIs, by-day trend) and the column validation of the Streamlit script.  *)
(*                                                                         *)
(* Conventions of the model                                                *)
(*   - a Python str is a sequence of one-character strings;                *)
(*   - a nullable cell (None / NaN / NaT) is a set with at most one        *)
(*     element: {} is the missing value, {v} the value v;                  *)
(*   - a float that is the quotient of two integers is kept exact as       *)
(*     [num, den]; a NaN float is {}.                                      *)
(***************************************************************************)
EXTENDS Integers, Sequences, FiniteSets

VARIABLES pc,           \* position of the run
          x, ident,     \* norm_phone: argument str(x) and returned value
          buyers, reach, start, end, item_filter,  \* compute_kpis arguments
          res,          \* compute_kpis: its locals at the return statement
          ui            \* script: uploaded frames, widgets, st.error calls

vars == <<pc, x, ident, buyers, reach, start, end, item_filter, res, ui>>

(***************************************************************************)
(* Bounds of the checked instances.                                        *)
(***************************************************************************)
MaxParts == 3
MaxBuyers == 2
MaxReach == 2
MaxOrder == 2
MaxDay == 1
MaxPatLen == 2
TicksPerDay == 2

(***************************************************************************)
(* Generic helpers.                                                        *)
(***************************************************************************)
None == {}

SeqsUpTo(S, n) == UNION {[1..k -> S] : k \in 0..n}

Range(f) == {f[i] : i \in DOMAIN f}

RECURSIVE Flatten(_)
Flatten(ss) == IF ss = <<>> THEN <<>> ELSE Head(ss) \o Flatten(Tail(ss))

RECURSIVE SortedSeq(_)
SortedSeq(S) == IF S = {} THEN <<>>
                ELSE LET m == CHOOSE m \in S : \A o \in S : m <= o
                     IN <<m>> \o SortedSeq(S \ {m})

(***************************************************************************)
(* norm_phone                                                              *)
(***************************************************************************)
AsciiDigits == {"0", "1", "2", "3", "4", "5", "6", "7", "8", "9"}

\* str.isdigit(): the ASCII digits and every other Unicode digit, of which
\* the model carries one, ARABIC-INDIC DIGIT THREE.
isdigit(ch) == ch \in AsciiDigits \cup {"U+0663"}

startswith(s, p) == Len(s) >= Len(p) /\ SubSeq(s, 1, Len(p)) = p

Prefix974 == <<"9", "7", "4">>

norm_phone_no_prefix_test(raw) ==
    LET s == SelectSeq(raw, isdigit)
    IN  IF Len(s) = 8 THEN Prefix974 \o s ELSE s

norm_phone_prefix_anywhere(raw) ==
    LET s == SelectSeq(raw, isdigit)
    IN  IF \E o \in 0..(Len(s) - 3) : SubSeq(s, o + 1, o + 3) = Prefix974
        THEN s
        ELSE IF Len(s) = 8 THEN Prefix974 \o s
        ELSE s

norm_phone(raw) ==
    LET s == SelectSeq(raw, isdigit)
    IN  IF startswith(s, Prefix974) THEN s
        ELSE IF Len(s) = 8 THEN Prefix974 \o s
        ELSE s

\* str(x) of the raw cells: concatenations of at most MaxParts pieces.
PhonePieces == { <<"9", "7", "4">>, <<"1", "2", "3", "4">>, <<"5">>,
                 <<"-">>, <<".", "0">>, <<"U+0663">> }

RawInputs == { Flatten(ps) : ps \in SeqsUpTo(PhonePieces, MaxParts) }

(***************************************************************************)
(* Cells and columns of a DataFrame.                                       *)
(***************************************************************************)
Val(cell) == CHOOSE v \in cell : TRUE

\* Series.nunique(): the number of distinct non-null values of a column.
nunique(rows, col) == Cardinality(UNION {rows[i][col] : i \in DOMAIN rows})

\* nunique() of a column of str values (norm_phone returns no null).
nunique_str(rows, col) == Cardinality({rows[i][col] : i \in DOMAIN rows})

\* Sum of the non-null cells of a column (skipna).
RECURSIVE sum_skipna(_, _)
sum_skipna(rows, col) ==
    IF rows = <<>> THEN 0
    ELSE (IF Head(rows)[col] = None THEN 0 ELSE Val(Head(rows)[col]))
         + sum_skipna(Tail(rows), col)

count_valid(rows, col) == Len(SelectSeq(rows, LAMBDA r : r[col] # None))

\* Series.sum(min_count=1): NaN unless at least one cell is non-null.
sum_min_count(rows, col) ==
    IF count_valid(rows, col) < 1 THEN None ELSE {sum_skipna(rows, col)}

\* Python `v or 0` on a float: bool(nan) is True, bool(0) is False.
truthy_number(v) == v = None \/ Val(v) # 0

or_zero(v) == IF truthy_number(v) THEN v ELSE {0}

\* Python `a / b` on floats, kept exact; NaN propagates.
Ratio(n, d) == [num |-> n, den |-> d]

true_div(a, b) == IF a = None THEN None ELSE {Ratio(Val(a), b)}

(***************************************************************************)
(* compute_kpis: normalize phones                                          *)
(***************************************************************************)
with_phone(rows) ==
    [i \in DOMAIN rows |->
        [c \in DOMAIN rows[i] \cup {"_phone"} |->
            IF c = "_phone" THEN norm_phone(rows[i].phone_number)
            ELSE rows[i][c]]]

(***************************************************************************)
(* compute_kpis: optional item filter                                      *)
(* Series.str.contains(pat, case=False, na=False) leaves regex at its      *)
(* default True: pat is compiled as a regular expression and searched      *)
(* with re.IGNORECASE. The patterns of the model are made of letters and   *)
(* ".", the regular expression that matches any one character.             *)
(***************************************************************************)
lower(ch) == CASE ch = "A" -> "a" [] ch = "B" -> "b" [] OTHER -> ch

re_atom_match(p, c) == p = "." \/ lower(p) = lower(c)

re_search_ignorecase(pat, text) ==
    \E o \in 0..(Len(text) - Len(pat)) :
        \A i \in 1..Len(pat) : re_atom_match(pat[i], text[o + i])

str_contains(cell, pat) ==
    IF cell = None THEN FALSE ELSE re_search_ignorecase(pat, Val(cell))

\* `if item_filter:` is false for None and for the empty string.
truthy_str(v) == v # None /\ Val(v) # <<>>

item_filter_stage(rows, pat) ==
    IF truthy_str(pat)
    THEN SelectSeq(rows, LAMBDA r : str_contains(r.item_name, Val(pat)))
    ELSE rows

(***************************************************************************)
(* compute_kpis: date window                                               *)
(* A timestamp is a number of ticks, TicksPerDay to the day; a date is a   *)
(* day number. A raw created_at cell is either a well-formed date(time)    *)
(* text or text that pd.to_datetime(errors="coerce") turns into NaT.       *)
(***************************************************************************)
to_datetime_coerce(raw) ==
    IF raw.kind = "iso" THEN {raw.day * TicksPerDay + raw.tick} ELSE None

\* pd.to_datetime(date): midnight of that day.
to_datetime(d) == d * TicksPerDay

parse_created_at(rows) ==
    [i \in DOMAIN rows |->
        [rows[i] EXCEPT !.created_at = to_datetime_coerce(rows[i].created_at)]]

\* Comparisons with NaT are False.
ge(cell, ts) == cell # None /\ Val(cell) >= ts

lt(cell, ts) == cell # None /\ Val(cell) < ts

le(cell, ts) == cell # None /\ Val(cell) <= ts

start_stage(rows, s) ==
    IF s # None
    THEN SelectSeq(rows, LAMBDA r : ge(r.created_at, to_datetime(Val(s))))
    ELSE rows

end_stage(rows, e) ==
    IF e # None
    THEN SelectSeq(rows, LAMBDA r : le(r.created_at, to_datetime(Val(e))))
    ELSE rows

(***************************************************************************)
(* compute_kpis: match conversions                                         *)
(***************************************************************************)
column(rows, col) == [i \in DOMAIN rows |-> rows[i][col]]

keep_duplicates(keys) == keys

\* DataFrame.drop_duplicates() of a one-column frame: first occurrences.
RECURSIVE drop_duplicates(_)
drop_duplicates(keys) ==
    IF keys = <<>> THEN <<>>
    ELSE LET init == drop_duplicates(SubSeq(keys, 1, Len(keys) - 1))
             last == keys[Len(keys)]
         IN  IF last \in Range(init) THEN init ELSE Append(init, last)

\* The rows of one left row joined with every right key equal to its key.
RECURSIVE join_row(_, _)
join_row(r, keys) ==
    IF keys = <<>> THEN <<>>
    ELSE (IF Head(keys) = r["_phone"] THEN <<r>> ELSE <<>>)
         \o join_row(r, Tail(keys))

merge_left(left, keys) == left

\* left.merge(right, on="_phone", how="inner"), in the order of the left rows.
RECURSIVE merge_inner(_, _)
merge_inner(left, keys) ==
    IF left = <<>> THEN <<>>
    ELSE join_row(Head(left), keys) \o merge_inner(Tail(left), keys)

(***************************************************************************)
(* compute_kpis: scalar KPIs                                               *)
(***************************************************************************)
conv_rate_of(conv_u, reach_u) ==
    IF reach_u # 0 THEN {Ratio(conv_u * 100, reach_u)} ELSE {Ratio(0, 1)}

aov_of(total_revenue, total_orders) ==
    IF total_orders # 0 THEN true_div(total_revenue, total_orders)
    ELSE {Ratio(0, 1)}

\* conv.groupby("_phone")["order_id"].nunique()
group_rows(rows, col, key) == SelectSeq(rows, LAMBDA r : r[col] = key)

rb_of(conv) ==
    [p \in Range(column(conv, "_phone")) |->
        nunique(group_rows(conv, "_phone", p), "order_id")]

repeat_count_rows(conv) ==
    Len(SelectSeq(conv, LAMBDA r : rb_of(conv)[r["_phone"]] > 1))

\* int((rb > 1).sum())
repeat_count_of(conv) ==
    LET rb == rb_of(conv) IN Cardinality({p \in DOMAIN rb : rb[p] > 1})

repeat_rate_of(repeat_count, conv_u) ==
    IF conv_u # 0 THEN {Ratio(repeat_count * 100, conv_u)} ELSE {Ratio(0, 1)}

(***************************************************************************)
(* compute_kpis: by-day trend                                              *)
(***************************************************************************)
\* Series.dt.date: the calendar date of a timestamp, NaT for NaT.
dt_date(cell) == IF cell = None THEN None ELSE {Val(cell) \div TicksPerDay}

assign_day(rows) ==
    [i \in DOMAIN rows |->
        [c \in DOMAIN rows[i] \cup {"day"} |->
            IF c = "day" THEN dt_date(rows[i].created_at) ELSE rows[i][c]]]

buyers_key_literal == "phone_number"

\* " _phone".strip()
buyers_key == "_phone"

\* groupby("day") drops the NaT key and sorts the keys.
day_groups(rows) == SortedSeq(UNION {rows[i].day : i \in DOMAIN rows})

by_day_of(conv) ==
    LET rows == assign_day(conv)
        days == day_groups(rows)
    IN  [k \in DOMAIN days |->
            LET g == SelectSeq(rows, LAMBDA r : r.day = {days[k]})
            IN  [day     |-> days[k],
                 orders  |-> nunique(g, "order_id"),
                 buyers  |-> nunique_str(g, buyers_key),
                 revenue |-> sum_skipna(g, "total_spent")]]

(***************************************************************************)
(* compute_kpis: the locals at `return kpis, conv, by_day`                 *)
(***************************************************************************)
compute_kpis(buyers0, reach0, start0, end0, item_filter0) ==
    LET b_phone  == with_phone(buyers0)
        r_phone  == with_phone(reach0)
        b_item   == item_filter_stage(b_phone, item_filter0)
        b_parsed == parse_created_at(b_item)
        b_start  == start_stage(b_parsed, start0)
        b_end    == end_stage(b_start, end0)
        reach_u  == nunique_str(r_phone, "_phone")
        buyers_u == nunique_str(b_end, "_phone")
        conv     == merge_inner(b_end, drop_duplicates(column(r_phone, "_phone")))
        conv_u   == nunique_str(conv, "_phone")
        total_revenue == or_zero(sum_min_count(conv, "total_spent"))
        total_orders  == nunique(conv, "order_id")
        total_units   == or_zero(sum_min_count(conv, "quantity"))
        repeat_count  == repeat_count_of(conv)
    IN  [after_item    |-> b_item,
         parsed        |-> b_parsed,
         buyers        |-> b_end,
         reach         |-> r_phone,
         reach_u       |-> reach_u,
         buyers_u      |-> buyers_u,
         conv          |-> conv,
         conv_u        |-> conv_u,
         conv_rate     |-> conv_rate_of(conv_u, reach_u),
         total_revenue |-> total_revenue,
         total_orders  |-> total_orders,
         total_units   |-> total_units,
         aov           |-> aov_of(total_revenue, total_orders),
         repeat_count  |-> repeat_count,
         repeat_rate   |-> repeat_rate_of(repeat_count, conv_u),
         by_day        |-> by_day_of(conv)]

(***************************************************************************)
(* The script: validation of the uploaded frames, then compute_kpis.       *)
(***************************************************************************)
needed_buyers == {"phone_number", "order_id", "created_at", "item_name",
                  "quantity", "total_spent"}

needed_reach == {"phone_number"}

\* str.strip() of the text input: leading and trailing blanks removed.
RECURSIVE lstrip(_)
lstrip(t) == IF t # <<>> /\ Head(t) = " " THEN lstrip(Tail(t)) ELSE t

RECURSIVE rstrip(_)
rstrip(t) == IF t # <<>> /\ t[Len(t)] = " "
             THEN rstrip(SubSeq(t, 1, Len(t) - 1)) ELSE t

strip(t) == rstrip(lstrip(t))

\* `item_filter.strip() or None`
strip_or_none(t) == IF strip(t) # <<>> THEN {strip(t)} ELSE None

NoResult == [none |-> TRUE]

NoArgs == [buyers |-> <<>>, reach |-> <<>>, start |-> None, end |-> None,
           item_filter |-> None]

validate_reach_first(b_cols, r_cols) ==
    LET missing_b == needed_buyers \ b_cols
        missing_r == needed_reach \ r_cols
    IN  IF missing_r # {}
        THEN <<[table |-> "reach", columns |-> missing_r]>>
        ELSE IF missing_b # {}
        THEN <<[table |-> "buyers", columns |-> missing_b]>>
        ELSE <<>>

\* The st.error calls of the light validation, in order.
validate(b_cols, r_cols) ==
    LET missing_b == needed_buyers \ b_cols
        missing_r == needed_reach \ r_cols
    IN  IF missing_b # {}
        THEN <<[table |-> "buyers", columns |-> missing_b]>>
        ELSE IF missing_r # {}
        THEN <<[table |-> "reach", columns |-> missing_r]>>
        ELSE <<>>

\* The else branch of the validation: compute_kpis is called.
proceed(errs) == errs = <<>>

\* One run of the script over the widget state u: what it reports, what it
\* passes to compute_kpis and what compute_kpis returns.
script(u) ==
    IF u.reach_df = None \/ u.buyers_df = None
    THEN [errors |-> <<>>, info |-> TRUE, args |-> NoArgs, res |-> NoResult]
    ELSE
    LET b    == Val(u.buyers_df)
        r    == Val(u.reach_df)
        errs == validate(b.columns, r.columns)
        args == [buyers |-> b.rows, reach |-> r.rows,
                 start |-> u.start_date, end |-> u.end_date,
                 item_filter |-> strip_or_none(u.item_filter)]
    IN  IF proceed(errs)
        THEN [errors |-> errs, info |-> FALSE, args |-> args,
              res |-> compute_kpis(args.buyers, args.reach, args.start,
                                   args.end, args.item_filter)]
        ELSE [errors |-> errs, info |-> FALSE, args |-> NoArgs,
              res |-> NoResult]

(***************************************************************************)
(* Inputs of the checked instances.                                        *)
(***************************************************************************)
P1234 == <<"1", "2", "3", "4">>

PhoneLocalA == P1234 \o P1234
PhoneIntlA  == <<"+">> \o Prefix974 \o <<" ">> \o P1234 \o <<"-">> \o P1234
PhoneLocalB == <<"5", "5", "5", "5">> \o P1234
PhoneText   == <<"n", "a", "n">>

OrderIds == {{o} : o \in 1..MaxOrder}

Junk == [kind |-> "junk", day |-> 0, tick |-> 0]

IsoTexts == [kind : {"iso"}, day : 0..MaxDay, tick : 0..(TicksPerDay - 1)]

Midnight(d) == [kind |-> "iso", day |-> d, tick |-> 0]

Dates == {{d} : d \in 0..MaxDay}

ItemChars == {"a", "A", "b", "."}

Texts == SeqsUpTo(ItemChars, MaxPatLen)

Cells(S) == {{v} : v \in S}

ReachRows(P) == [phone_number : P]

(***************************************************************************)
(* Actions.                                                                *)
(***************************************************************************)
NormIdle == /\ x = <<>>
            /\ ident = <<>>

KpiIdle == /\ buyers = <<>>
           /\ reach = <<>>
           /\ start = None
           /\ end = None
           /\ item_filter = None
           /\ res = NoResult

UiStart == [reach_df |-> None, buyers_df |-> None, start_date |-> None,
            end_date |-> None, item_filter |-> <<>>, errors |-> <<>>,
            info |-> TRUE]

NormPhone ==
    /\ pc = "norm_call"
    /\ ident' = norm_phone(x)
    /\ pc' = "norm_return"
    /\ UNCHANGED <<x, buyers, reach, start, end, item_filter, res, ui>>

ComputeKpis ==
    /\ pc = "kpi_call"
    /\ res' = compute_kpis(buyers, reach, start, end, item_filter)
    /\ pc' = "kpi_return"
    /\ UNCHANGED <<x, ident, buyers, reach, start, end, item_filter, ui>>

(***************************************************************************)
(* norm_phone over the raw inputs.                                         *)
(***************************************************************************)
InitNorm ==
    /\ pc = "norm_call"
    /\ x \in RawInputs
    /\ ident = <<>>
    /\ KpiIdle
    /\ ui = UiStart

NextNorm == NormPhone

SpecNorm == InitNorm /\ [][NextNorm]_vars

(***************************************************************************)
(* compute_kpis over tables that differ in phones, dates and items.        *)
(***************************************************************************)
InitKpi(BT, RT, S, E, F) ==
    /\ pc = "kpi_call"
    /\ NormIdle
    /\ buyers \in BT
    /\ reach \in RT
    /\ start \in S
    /\ end \in E
    /\ item_filter \in F
    /\ res = NoResult
    /\ ui = UiStart

MatchVariants ==
    { [created_at |-> Midnight(0), item_name |-> {<<"a">>}],
      [created_at |-> Junk,        item_name |-> {<<"a">>}],
      [created_at |-> Midnight(0), item_name |-> {<<"b">>}] }

MatchRows ==
    { [phone_number |-> p, order_id |-> {1}, created_at |-> v.created_at,
       item_name |-> v.item_name, quantity |-> {1}, total_spent |-> {5}] :
      p \in {PhoneLocalA, PhoneLocalB, PhoneText}, v \in MatchVariants }

InitMatch ==
    InitKpi(SeqsUpTo(MatchRows, MaxBuyers),
            SeqsUpTo(ReachRows({PhoneLocalA, PhoneIntlA, PhoneText}), MaxReach),
            {None, {0}}, {None, {0}}, {None, {<<"a">>}})

NextKpi == ComputeKpis

SpecMatch == InitMatch /\ [][NextKpi]_vars

(***************************************************************************)
(* compute_kpis over tables that differ in orders, quantities and amounts. *)
(***************************************************************************)
AmountVariants ==
    { [quantity |-> None, total_spent |-> None],
      [quantity |-> {1},  total_spent |-> {5}],
      [quantity |-> {1},  total_spent |-> {0}],
      [quantity |-> None, total_spent |-> {5}] }

AggRows ==
    { [phone_number |-> p, order_id |-> o, created_at |-> Midnight(0),
       item_name |-> {<<"a">>}, quantity |-> v.quantity,
       total_spent |-> v.total_spent] :
      p \in {PhoneLocalA, PhoneLocalB}, o \in OrderIds \cup {None},
      v \in AmountVariants }

AggReach ==
    { <<>>, <<[phone_number |-> PhoneIntlA]>>,
      <<[phone_number |-> PhoneIntlA], [phone_number |-> PhoneLocalB]>> }

InitAgg ==
    InitKpi(SeqsUpTo(AggRows, MaxBuyers), AggReach, {None}, {None}, {None})

SpecAgg == InitAgg /\ [][NextKpi]_vars

(***************************************************************************)
(* compute_kpis over tables that differ in created_at, under date bounds.  *)
(***************************************************************************)
DateRows ==
    { [phone_number |-> PhoneLocalA, order_id |-> {1}, created_at |-> c,
       item_name |-> {<<"a">>}, quantity |-> {1}, total_spent |-> {5}] :
      c \in IsoTexts \cup {Junk} }

InitDate ==
    InitKpi(SeqsUpTo(DateRows, MaxBuyers), {<<[phone_number |-> PhoneIntlA]>>},
            Dates \cup {None}, Dates \cup {None}, {None})

SpecDate == InitDate /\ [][NextKpi]_vars

(***************************************************************************)
(* compute_kpis over tables that differ in days, phones, orders, amounts.  *)
(***************************************************************************)
DayTexts ==
    {Junk} \cup [kind : {"iso"}, day : 0..MaxDay, tick : {0, TicksPerDay - 1}]

OrderVariants ==
    { [order_id |-> {1}, total_spent |-> {5}],
      [order_id |-> {2}, total_spent |-> {5}],
      [order_id |-> {1}, total_spent |-> None] }

DayRows ==
    { [phone_number |-> p, order_id |-> v.order_id, created_at |-> c,
       item_name |-> {<<"a">>}, quantity |-> {1},
       total_spent |-> v.total_spent] :
      p \in {PhoneLocalA, PhoneIntlA}, c \in DayTexts, v \in OrderVariants }

InitDay ==
    InitKpi(SeqsUpTo(DayRows, MaxBuyers), {<<[phone_number |-> PhoneIntlA]>>},
            {None}, {None}, {None})

SpecDay == InitDay /\ [][NextKpi]_vars

(***************************************************************************)
(* compute_kpis over tables that differ in item_name, under item filters.  *)
(***************************************************************************)
ItemRows ==
    { [phone_number |-> p, order_id |-> {1}, created_at |-> Midnight(0),
       item_name |-> n, quantity |-> {1}, total_spent |-> {5}] :
      p \in {PhoneLocalA, PhoneLocalB}, n \in Cells(Texts) \cup {None} }

InitItem ==
    InitKpi(SeqsUpTo(ItemRows, MaxBuyers), {<<[phone_number |-> PhoneIntlA]>>},
            {None}, {None}, Cells(Texts) \cup {None})

SpecItem == InitItem /\ [][NextKpi]_vars

(***************************************************************************)
(* The script, rerun by Streamlit after every widget change.               *)
(***************************************************************************)
SampleBuyer ==
    [phone_number |-> PhoneLocalA, order_id |-> {1},
     created_at |-> Midnight(0), item_name |-> {<<"a">>},
     quantity |-> {2}, total_spent |-> {100}]

SampleReach == [phone_number |-> PhoneIntlA, name |-> <<"a">>]

\* load_df: the frame read from an uploaded file with the columns cols.
Frame(row, cols) == [columns |-> cols, rows |-> <<[c \in cols |-> row[c]]>>]

BuyerUploads ==
    {None} \cup Cells({Frame(SampleBuyer, c) : c \in SUBSET needed_buyers})

ReachUploads ==
    {None} \cup Cells({Frame(SampleReach, c) : c \in SUBSET DOMAIN SampleReach})

FilterTexts == {<<>>, <<" ">>, <<"a">>, <<" ", "a", " ">>}

Rerun(u) ==
    LET out == script(u)
    IN  /\ ui' = [u EXCEPT !.errors = out.errors, !.info = out.info]
        /\ buyers' = out.args.buyers
        /\ reach' = out.args.reach
        /\ start' = out.args.start
        /\ end' = out.args.end
        /\ item_filter' = out.args.item_filter
        /\ res' = out.res
        /\ UNCHANGED <<pc, x, ident>>

UploadReach ==
    /\ pc = "ui"
    /\ \E f \in ReachUploads : Rerun([ui EXCEPT !.reach_df = f])

UploadBuyers ==
    /\ pc = "ui"
    /\ \E f \in BuyerUploads : Rerun([ui EXCEPT !.buyers_df = f])

PickStartDate ==
    /\ pc = "ui"
    /\ \E d \in {None, {0}} : Rerun([ui EXCEPT !.start_date = d])

PickEndDate ==
    /\ pc = "ui"
    /\ \E d \in {None, {0}} : Rerun([ui EXCEPT !.end_date = d])

TypeItemFilter ==
    /\ pc = "ui"
    /\ \E t \in FilterTexts : Rerun([ui EXCEPT !.item_filter = t])

InitUI ==
    /\ pc = "ui"
    /\ NormIdle
    /\ KpiIdle
    /\ ui = UiStart

NextUI ==
    \/ UploadReach
    \/ UploadBuyers
    \/ PickStartDate
    \/ PickEndDate
    \/ TypeItemFilter

SpecUI == InitUI /\ [][NextUI]_vars

(***************************************************************************)
(* Properties.                                                             *)
(***************************************************************************)
RECURSIVE DigitsOnly(_)
DigitsOnly(t) ==
    IF t = <<>> THEN <<>>
    ELSE IF isdigit(Head(t)) THEN <<Head(t)>> \o DigitsOnly(Tail(t))
    ELSE DigitsOnly(Tail(t))

Begins974(t) == Len(t) >= 3 /\ t[1] = "9" /\ t[2] = "7" /\ t[3] = "4"

RefNorm(t) ==
    LET s == DigitsOnly(t)
    IN  CASE Begins974(s) -> s
          [] ~Begins974(s) /\ Len(s) = 8 -> <<"9", "7", "4">> \o s
          [] OTHER -> s

AllDigits(t) == \A i \in DOMAIN t : isdigit(t[i])

\* C1: norm_phone(x) is the digits of str(x), in order, with "974" put in
\* front exactly when they do not begin with "974" and are 8 in number; the
\* call returns for every input and the result holds digits only.
C1_NormPhoneIsReference ==
    /\ pc = "norm_call" => ENABLED NormPhone
    /\ pc = "norm_return" => ident = RefNorm(x) /\ AllDigits(ident)

C1_Witness ==
    /\ pc = "norm_return"
    /\ x = P1234 \o <<"-">> \o P1234
    /\ ident = Prefix974 \o P1234 \o P1234

\* C2 as stated: every string d of exactly 8 digits has
\* norm_phone(d) = "974" + d.
C2_EightDigitsGetPrefix ==
    (pc = "norm_return" /\ Len(x) = 8 /\ AllDigits(x))
        => ident = <<"9", "7", "4">> \o x

\* C2 amended: every string d of exactly 8 digits that does not begin with
\* "974" has norm_phone(d) = "974" + d; one that does is returned unchanged.
C2_EightDigitsNot974GetPrefix ==
    (pc = "norm_return" /\ Len(x) = 8 /\ AllDigits(x))
        => ident = (IF Begins974(x) THEN x ELSE <<"9", "7", "4">> \o x)

C2_Witness ==
    /\ pc = "norm_return"
    /\ x = <<"5">> \o Prefix974 \o P1234
    /\ ident = Prefix974 \o x

ReachIdentities == {norm_phone(reach[i].phone_number) : i \in DOMAIN reach}

InReach(r) == r["_phone"] \in ReachIdentities

Occurrences(rows, r) == Cardinality({i \in DOMAIN rows : rows[i] = r})

\* C3: converted holds exactly the filtered buyer rows whose normalized
\* identity is a normalized reach identity, each as often as it occurs among
\* the filtered buyers whatever the number of reach rows with that identity,
\* and never more rows than the filtered buyers.
C3_ConvertedIsMatchedBuyers ==
    pc = "kpi_return" =>
        /\ res.conv = SelectSeq(res.buyers, InReach)
        /\ \A i \in DOMAIN res.buyers :
              Occurrences(res.conv, res.buyers[i]) =
                  (IF InReach(res.buyers[i])
                   THEN Occurrences(res.buyers, res.buyers[i]) ELSE 0)
        /\ Len(res.conv) <= Len(res.buyers)

C3_Witness ==
    /\ pc = "kpi_return"
    /\ Len(reach) = 2
    /\ reach[1].phone_number # reach[2].phone_number
    /\ Cardinality(ReachIdentities) = 1
    /\ Len(res.buyers) = 2
    /\ Len(res.conv) = 1
    /\ res.conv[1] = res.buyers[2]

ConvIdentities == {res.conv[i]["_phone"] : i \in DOMAIN res.conv}

\* C4: conv_u, the distinct identities of converted, is at most reach_u, the
\* distinct identities of the unfiltered reach table; the conversion rate is
\* a number (not NaN), conv_u / reach_u * 100, within [0, 100], and 0 when
\* reach_u = 0.
C4_ConversionRateBounded ==
    pc = "kpi_return" =>
        /\ res.reach_u = Cardinality(ReachIdentities)
        /\ res.conv_u = Cardinality(ConvIdentities)
        /\ res.conv_u <= res.reach_u
        /\ res.conv_rate # None
        /\ LET q == Val(res.conv_rate)
           IN  /\ q.den > 0
               /\ 0 <= q.num
               /\ q.num <= 100 * q.den
               /\ res.reach_u = 0 => q.num = 0
               /\ res.reach_u # 0 => q.num * res.reach_u = res.conv_u * 100 * q.den

C4_Witness ==
    /\ pc = "kpi_return"
    /\ start # None
    /\ item_filter # None
    /\ Len(res.buyers) < Len(buyers)
    /\ res.reach_u = 2
    /\ res.conv_u = 1
    /\ Val(res.conv_rate) = Ratio(100, 2)

IsNumber(q) == q # None /\ Val(q).den > 0

IsZero(q) == IsNumber(q) /\ Val(q).num = 0

AllMissing(rows, col) == \A i \in DOMAIN rows : rows[i][col] = None

\* C5 as stated: when converted is empty every dependent metric is 0
\* (matched buyers, conversion rate, total revenue, total orders, total
\* units, AOV, repeat buyer count and rate); total revenue and total units
\* are 0, not NaN, also when every total_spent / quantity of converted is
\* missing.
C5_EmptyConvertedAllZero ==
    pc = "kpi_return" =>
        /\ res.conv = <<>> =>
              /\ res.conv_u = 0
              /\ IsZero(res.conv_rate)
              /\ res.total_revenue = {0}
              /\ res.total_orders = 0
              /\ res.total_units = {0}
              /\ IsZero(res.aov)
              /\ res.repeat_count = 0
              /\ IsZero(res.repeat_rate)
        /\ AllMissing(res.conv, "total_spent") => res.total_revenue = {0}
        /\ AllMissing(res.conv, "quantity") => res.total_units = {0}

RowsAfterItem == res.parsed

InWindow(r) ==
    /\ start # None =>
          r.created_at # None /\ Val(r.created_at) >= Val(start) * TicksPerDay
    /\ end # None =>
          r.created_at # None /\ Val(r.created_at) <= Val(end) * TicksPerDay

\* C6: the date filter keeps exactly the rows whose parsed created_at is
\* >= start_date when start_date is given and <= end_date when end_date is
\* given (the bound itself included, both conditions together); a row whose
\* created_at does not parse is dropped when a bound is given and kept when
\* none is.
C6_DateWindowInclusive ==
    pc = "kpi_return" =>
        /\ res.buyers = SelectSeq(RowsAfterItem, InWindow)
        /\ \A i \in DOMAIN RowsAfterItem :
              LET r == RowsAfterItem[i]
              IN  /\ (r.created_at = None) <=> (buyers[i].created_at.kind # "iso")
                  /\ r.created_at = None =>
                        ((r \in Range(res.buyers)) <=> (start = None /\ end = None))

C6_Witness ==
    /\ pc = "kpi_return"
    /\ start # None
    /\ end = start
    /\ Len(buyers) = 2
    /\ buyers[1].created_at = Junk
    /\ Len(res.buyers) = 1
    /\ res.buyers[1].created_at = {Val(end) * TicksPerDay}

LiteralAt(pat, text, o) ==
    \A i \in 1..Len(pat) : lower(pat[i]) = lower(text[o + i])

LiteralSubstring(pat, text) ==
    \E o \in 0..(Len(text) - Len(pat)) : LiteralAt(pat, text, o)

HasItem(r) ==
    r.item_name # None /\ LiteralSubstring(Val(item_filter), Val(r.item_name))

\* C7 as stated: a non-empty item_filter keeps exactly the rows whose
\* item_name holds item_filter as a literal substring, letter case ignored,
\* whatever the filter string; rows without item_name never match; a row of
\* a reach identity whose item_name lacks the substring is not converted; an
\* empty or absent item_filter removes no row.
C7_ItemFilterLiteralSubstring ==
    pc = "kpi_return" =>
        /\ (item_filter # None /\ Val(item_filter) # <<>>) =>
              /\ res.after_item = SelectSeq(with_phone(buyers), HasItem)
              /\ \A i \in DOMAIN res.conv : HasItem(res.conv[i])
        /\ (item_filter = None \/ item_filter = {<<>>}) =>
              res.after_item = with_phone(buyers)

BothUploaded == ui.reach_df # None /\ ui.buyers_df # None

MissingBuyers ==
    {"phone_number", "order_id", "created_at", "item_name", "quantity",
     "total_spent"} \ Val(ui.buyers_df).columns

MissingReach == {"phone_number"} \ Val(ui.reach_df).columns

\* C8: when a required column is absent from the buyers table or from the
\* reach table, compute_kpis is not called and there is no result; the
\* script reports one message, which names all the missing columns of the
\* buyers table when it lacks any, and otherwise all those of the reach
\* table.
C8_MissingColumnsHalt ==
    (BothUploaded /\ (MissingBuyers # {} \/ MissingReach # {})) =>
        /\ res = NoResult
        /\ buyers = <<>> /\ reach = <<>>
        /\ Len(ui.errors) = 1
        /\ MissingBuyers # {} =>
              ui.errors[1] = [table |-> "buyers", columns |-> MissingBuyers]
        /\ MissingBuyers = {} =>
              ui.errors[1] = [table |-> "reach", columns |-> MissingReach]

C8_Witness ==
    /\ BothUploaded
    /\ Cardinality(MissingBuyers) = 2
    /\ MissingReach = {"phone_number"}
    /\ res = NoResult
    /\ ui.errors = <<[table |-> "buyers", columns |-> MissingBuyers]>>

ConvRowsOf(p) == {i \in DOMAIN res.conv : res.conv[i]["_phone"] = p}

OrdersOf(p) == UNION {res.conv[i].order_id : i \in ConvRowsOf(p)}

RepeatIdentities == {p \in ConvIdentities : Cardinality(OrdersOf(p)) > 1}

\* C9: repeat_count is the number of converted identities with more than
\* one distinct order_id; repeat_count <= conv_u; the repeat buyer rate is
\* repeat_count / conv_u * 100, within [0, 100], and 0 when conv_u = 0; one
\* converted identity with 2 distinct orders gives repeat_count 1, rate 100.
C9_RepeatBuyers ==
    pc = "kpi_return" =>
        /\ res.repeat_count = Cardinality(RepeatIdentities)
        /\ res.repeat_count <= res.conv_u
        /\ IsNumber(res.repeat_rate)
        /\ LET q == Val(res.repeat_rate)
           IN  /\ 0 <= q.num
               /\ q.num <= 100 * q.den
               /\ res.conv_u = 0 => q.num = 0
               /\ res.conv_u # 0 =>
                     q.num * res.conv_u = res.repeat_count * 100 * q.den
               /\ (\E p \in ConvIdentities :
                      ConvIdentities = {p} /\ Cardinality(OrdersOf(p)) = 2)
                     => res.repeat_count = 1 /\ q.num = 100 * q.den

C9_Witness ==
    /\ pc = "kpi_return"
    /\ Len(res.conv) = 2
    /\ res.conv_u = 1
    /\ res.total_orders = 2
    /\ res.repeat_count = 1
    /\ res.repeat_rate = {Ratio(100, 1)}

DayOf(i) == Val(res.conv[i].created_at) \div TicksPerDay

Dated == {i \in DOMAIN res.conv : res.conv[i].created_at # None}

OnDay(d) == {i \in Dated : DayOf(i) = d}

RECURSIVE SpentOver(_)
SpentOver(I) ==
    IF I = {} THEN 0
    ELSE LET i == CHOOSE i \in I : TRUE
         IN  (IF res.conv[i].total_spent = None THEN 0
              ELSE Val(res.conv[i].total_spent)) + SpentOver(I \ {i})

\* C10: the daily breakdown has one row for each calendar date of the parsed
\* created_at of the converted records and no other row, in ascending date
\* order; a row holds the day's number of distinct order_id, of distinct
\* normalized identities and the sum of its total_spent; converted records
\* without created_at are in no row.
C10_DailyBreakdown ==
    pc = "kpi_return" =>
        /\ {res.by_day[k].day : k \in DOMAIN res.by_day} = {DayOf(i) : i \in Dated}
        /\ \A k \in DOMAIN res.by_day : \A j \in DOMAIN res.by_day :
              k < j => res.by_day[k].day < res.by_day[j].day
        /\ \A k \in DOMAIN res.by_day :
              LET row == res.by_day[k]
                  I   == OnDay(row.day)
              IN  /\ row.orders = Cardinality(UNION {res.conv[i].order_id : i \in I})
                  /\ row.buyers = Cardinality({norm_phone(res.conv[i].phone_number) : i \in I})
                  /\ row.revenue = SpentOver(I)

C10_Witness ==
    /\ pc = "kpi_return"
    /\ Len(res.conv) = 2
    /\ res.conv[1].phone_number # res.conv[2].phone_number
    /\ res.conv[1].order_id # res.conv[2].order_id
    /\ res.conv[1].created_at # res.conv[2].created_at
    /\ Len(res.by_day) = 1
    /\ res.by_day[1] = [day |-> 0, orders |-> 2, buyers |-> 1, revenue |-> 10]

====
